---- MODULE Spec2Model ----
(***************************************************************************)
(* A model of sil-lang's parser (src/src/parser/parser.c) and of its LLVM  *)
(* lowering pass (codegen.c, kept as src/unnamed/part_000 lines 1-248).    *)
(*                                                                         *)
(*   Spec       the lowering pass, codegen_generate, run on a Root AST     *)
(*              drawn from a bounded set of programs;                      *)
(*   TypeSpec   to_llvm_type applied to a TypeName tree;                   *)
(*   ParseSpec  the recursive-descent parser run on a token stream that    *)
(*              the lexer hands over one token at a time;                  *)
(*   CompileSpec  the parser, followed by lowering of the Root it returns. *)
(***************************************************************************)
EXTENDS Integers, Sequences, FiniteSets, TLC

VARIABLES
    \* ---- lowering (CodegenContext and the AST it walks) ----
    function_list,  \* Root.function_list: the declarations, in source order
    function_map,   \* CodegenContext.function_map
    module,         \* CodegenContext.module: the functions LLVM holds
    builder,        \* CodegenContext.builder: the function whose entry block it is at
    log,            \* every LLVM-C call made so far, in order
    entered,        \* the call sites codegen_fn_call has been entered for
    status,         \* "idle", "running", "done", "panic", "crash"
    error,          \* which sil_panic ended the run ("none" while there is none)
    pc,             \* where codegen_generate stands
    idx,            \* the loop counter i of analyze_ast / codegen_root
    \* ---- parsing (ParserContext and the nodes under construction) ----
    tokens,         \* ParserContext.token_list, as far as the lexer has handed it over
    token_index,    \* ParserContext.token_index
    root,           \* the Root node of parse_root
    frame,          \* the locals of the parse_* calls that are active
    panic,          \* the message of the sil_panic that ended the parse
    mark,           \* token_index when each loop last started an iteration
    \* ---- to_llvm_type on its own ----
    type_name,      \* the TypeName tree handed to to_llvm_type
    llvm_type       \* what it returned

lower_vars == <<function_list, function_map, module, builder, log, entered, status, error, pc, idx>>
lower_vars_but_control ==
    <<function_list, function_map, module, builder, log, entered, error, idx>>
type_vars == <<type_name, llvm_type>>
parse_vars == <<tokens, token_index, root, frame, panic, mark>>
vars == <<function_list, function_map, module, builder, log, entered, status, error,
          pc, idx,
          tokens, token_index, root, frame, panic, mark, type_name, llvm_type>>

(***************************************************************************)
(* Bounds of the model.                                                    *)
(***************************************************************************)
MaxFns == 2
MaxParams == 2
MaxPtrDepth == 12
MaxTokens == 13

RECURSIVE SeqsUpTo(_, _)
SeqsUpTo(S, n) ==
    IF n = 0 THEN {<<>>}
    ELSE LET shorter == SeqsUpTo(S, n - 1)
         IN  shorter \cup {Append(s, x) : s \in {t \in shorter : Len(t) = n - 1}, x \in S}

(***************************************************************************)
(* LLVM handles. NULL is the null pointer of every handle type.            *)
(***************************************************************************)
NULL == [k |-> "null"]
PANIC == [k |-> "panic"]
LLVMVoidType == [k |-> "void"]
LLVMInt8Type == [k |-> "int", bits |-> 8]
LLVMInt32Type == [k |-> "int", bits |-> 32]
LLVMPointerType(t) == [k |-> "ptr", to |-> t]
LLVMFunctionType(ret, params) == [k |-> "fn", ret |-> ret, params |-> params]

(***************************************************************************)
(* TypeName nodes.                                                         *)
(***************************************************************************)
Primitive(p) == [type |-> "Primitive", primitive |-> p]
Pointer(t) == [type |-> "Pointer", child_type |-> t]
AstTypeNames == {"void", "unreachable", "i8", "u8", "i32"}

RECURSIVE PointerTo(_, _)
PointerTo(n, t) == IF n = 0 THEN t ELSE Pointer(PointerTo(n - 1, t))

RECURSIVE to_llvm_type(_)
to_llvm_type(t) ==
    IF t.type = "Pointer"
    THEN LET child == to_llvm_type(t.child_type)
         IN  IF child = PANIC THEN PANIC ELSE LLVMPointerType(child)
    ELSE CASE t.primitive = "unreachable" -> LLVMVoidType
           [] t.primitive = "void" -> LLVMVoidType
           [] t.primitive = "i32" -> LLVMInt32Type
           [] t.primitive = "u8" -> LLVMInt8Type
           [] OTHER -> PANIC

(***************************************************************************)
(* AST nodes (the tagged union AstNode of parser.h, as records).           *)
(***************************************************************************)
ExpressionNumber(v) == [type |-> "ExpressionNumber", value |-> v]
ExpressionString(v) == [type |-> "ExpressionString", value |-> v]
ExpressionFunction(n, ps) == [type |-> "ExpressionFunction", name |-> n, parameters |-> ps]
InfixOperator(op, l, r) == [type |-> "InfixOperator", op |-> op, left |-> l, right |-> r]
StatementReturn(e) == [type |-> "StatementReturn", expression |-> e]
StatementExpression(e) == [type |-> "StatementExpression", expression |-> e]
Pattern(n, t) == [name |-> n, type |-> t]
\* node_new callocs the node: llvm_fn_type is NULL until lowering writes it
FnProto(n, ps, rt) ==
    [name |-> n, parameters |-> ps, return_type |-> rt, llvm_fn_type |-> NULL]

\* the body of a Fn that codegen_fn has not read yet
Unread == <<[type |-> "Unread"]>>

(***************************************************************************)
(* The programs lowering is run on.                                        *)
(***************************************************************************)
Names == {"a", "b"}
CallNames == Names \cup {"c"}        \* "c" is never declared
AstNodeOperatorTypes == {"Addition", "Subtraction", "Multiplication", "Division"}
ParamLists == SeqsUpTo({Pattern("p", Primitive("i32"))}, MaxParams)
ReturnTypes == {Primitive("i32"), Primitive("i8")}
ArgExprs == {ExpressionNumber("1"), ExpressionFunction("b", <<>>)}
Calls == {ExpressionFunction(n, ps) : n \in CallNames, ps \in SeqsUpTo(ArgExprs, MaxParams + 1)}
Exprs ==
    Calls
    \cup {ExpressionNumber("1"), ExpressionString("s")}
    \cup {InfixOperator(op, ExpressionNumber("1"), ExpressionNumber("2")) :
            op \in AstNodeOperatorTypes}
    \cup {InfixOperator("Addition", ExpressionNumber("1"),
            InfixOperator("Multiplication", ExpressionNumber("2"), ExpressionNumber("3"))),
          InfixOperator("Subtraction", ExpressionFunction("a", <<>>),
            ExpressionFunction("b", <<ExpressionString("s")>>))}
Bodies ==
    {<<>>}
    \cup {<<StatementExpression(e)>> : e \in Calls}
    \cup {<<StatementReturn(e)>> : e \in Exprs \ Calls}
    \cup {<<StatementReturn(ExpressionFunction("b", <<ExpressionNumber("1")>>))>>,
          <<StatementReturn(ExpressionNumber("1")),
            StatementExpression(ExpressionFunction("b", <<>>))>>,
          <<StatementReturn(ExpressionNumber("1")),
            StatementExpression(ExpressionString("s")),
            StatementReturn(ExpressionNumber("2"))>>}
Decls ==
    {[type |-> k, prototype |-> FnProto(n, ps, rt), body |-> Unread] :
        k \in {"Fn", "ExternFn"}, n \in Names, ps \in ParamLists, rt \in ReturnTypes}
Programs == SeqsUpTo(Decls, MaxFns)

(***************************************************************************)
(* The symbol table (hashmap.h). entries is the list codegen_root walks;   *)
(* a value is the position of the declaring node in function_list, 0 for   *)
(* the null pointer.                                                       *)
(***************************************************************************)
map_has(map, name) == \E i \in 1..Len(map.entries) : map.entries[i].key = name

map_get(map, name) ==
    IF map_has(map, name)
    THEN map.entries[CHOOSE i \in 1..Len(map.entries) : map.entries[i].key = name].value
    ELSE 0

map_insert(map, name, node) ==
    [map EXCEPT !.entries = Append(@, [key |-> name, value |-> node])]

(***************************************************************************)
(* The lowering context c threaded through the code generator: the state   *)
(* variables as one record, plus ub, the outcome this build gives to a     *)
(* call of LLVMBuildCall2 with a null function type or a null callee.      *)
(***************************************************************************)
Ctx(ub) ==
    [function_list |-> function_list, function_map |-> function_map, module |-> module,
     builder |-> builder, log |-> log, entered |-> entered, status |-> status,
     error |-> error, ub |-> ub]

sil_panic(c, what) == [c EXCEPT !.status = "panic", !.error = what]

\* one LLVM-C call: appended to the log; its value is the handle of the result
Emit(c, call) == [c EXCEPT !.log = Append(@, call)]
Inst(c) == [k |-> "inst", id |-> Len(c.log)]

LLVMGetNamedFunction(m, name) ==
    IF \E i \in 1..Len(m.functions) : m.functions[i].name = name
    THEN [k |-> "function",
          id |-> CHOOSE i \in 1..Len(m.functions) : m.functions[i].name = name]
    ELSE NULL

RECURSIVE codegen_expression(_, _)
RECURSIVE codegen_arguments(_, _, _, _)

\* a loop over the arguments that lowers the last one first
codegen_arguments_reversed(c, parameter_list, i, parameters) ==
    IF i > Len(parameter_list) \/ c.status # "running"
    THEN [c |-> c, v |-> parameters]
    ELSE LET r == codegen_expression(c, parameter_list[Len(parameter_list) + 1 - i])
         IN  codegen_arguments(r.c, parameter_list, i + 1, <<r.v>> \o parameters)

\* the for loop of codegen_fn_call, part_000:90-92
codegen_arguments(c, parameter_list, i, parameters) ==
    IF i > Len(parameter_list) \/ c.status # "running"
    THEN [c |-> c, v |-> parameters]
    ELSE LET r == codegen_expression(c, parameter_list[i])
         IN  codegen_arguments(r.c, parameter_list, i + 1, Append(parameters, r.v))

\* codegen_fn_call without the arity check
codegen_fn_call_unchecked(c0, fn_call) ==
    LET name == fn_call.name
        c == [c0 EXCEPT !.entered = Append(@, [name |-> name,
                                              count |-> Len(fn_call.parameters),
                                              log_len |-> Len(c0.log)])]
        fn == map_get(c.function_map, name)
    IN  IF fn = 0 THEN [c |-> sil_panic(c, "UnknownFunction"), v |-> NULL]
        ELSE
        LET fn_ref == LLVMGetNamedFunction(c.module, name)
            fn_proto == c.function_list[fn].prototype
            args == codegen_arguments(c, fn_call.parameters, 1, <<>>)
        IN  IF args.c.status # "running" THEN [c |-> args.c, v |-> NULL]
            ELSE IF (fn_proto.llvm_fn_type = NULL \/ fn_ref = NULL) /\ c.ub = "crash"
            THEN [c |-> [args.c EXCEPT !.status = "crash"], v |-> NULL]
            ELSE LET c2 == Emit(args.c, [op |-> "LLVMBuildCall2", at |-> args.c.builder,
                                         name |-> name, site |-> Len(c.entered),
                                         fn_type |-> fn_proto.llvm_fn_type,
                                         fn |-> fn_ref, args |-> args.v])
                 IN  [c |-> c2, v |-> Inst(c2)]

codegen_fn_call(c0, fn_call) ==
    LET name == fn_call.name
        c == [c0 EXCEPT !.entered = Append(@, [name |-> name,
                                              count |-> Len(fn_call.parameters),
                                              log_len |-> Len(c0.log)])]
        fn == map_get(c.function_map, name)
    IN  IF fn = 0 THEN [c |-> sil_panic(c, "UnknownFunction"), v |-> NULL]
        ELSE
        LET fn_ref == LLVMGetNamedFunction(c.module, name)
            \* fn->data.fn.prototype, read for an ExternFn node as well: the
            \* prototype is the first member of both union variants
            fn_proto == c.function_list[fn].prototype
            param_count == Len(fn_call.parameters)
        IN  IF param_count # Len(fn_proto.parameters)
            THEN [c |-> sil_panic(c, "ArityMismatch"), v |-> NULL]
            ELSE
            LET args == codegen_arguments(c, fn_call.parameters, 1, <<>>)
            IN  IF args.c.status # "running" THEN [c |-> args.c, v |-> NULL]
                \* a null LLVMTypeRef or LLVMValueRef handed to LLVMBuildCall2 is
                \* undefined behaviour: the build crashes, or emits the call as given
                ELSE IF (fn_proto.llvm_fn_type = NULL \/ fn_ref = NULL) /\ c.ub = "crash"
                THEN [c |-> [args.c EXCEPT !.status = "crash"], v |-> NULL]
                ELSE LET c2 == Emit(args.c, [op |-> "LLVMBuildCall2", at |-> args.c.builder,
                                             name |-> name, site |-> Len(c.entered),
                                             fn_type |-> fn_proto.llvm_fn_type,
                                             fn |-> fn_ref, args |-> args.v])
                     IN  [c |-> c2, v |-> Inst(c2)]

InfixBuilder(op) ==
    CASE op = "Addition" -> "LLVMBuildAdd"
      [] op = "Subtraction" -> "LLVMBuildSub"
      [] op = "Multiplication" -> "LLVMBuildMul"
      [] op = "Division" -> "LLVMBuildSDiv"
      [] OTHER -> "none"

codegen_expression(c, expression) ==
    IF c.status # "running" THEN [c |-> c, v |-> NULL]
    ELSE CASE expression.type = "ExpressionFunction" -> codegen_fn_call(c, expression)
      [] expression.type = "ExpressionString" ->
            LET c1 == Emit(c, [op |-> "LLVMBuildGlobalString", at |-> c.builder,
                               text |-> expression.value])
                c2 == Emit(c1, [op |-> "LLVMBuildPointerCast", at |-> c.builder,
                                value |-> Inst(c1),
                                type |-> LLVMPointerType(LLVMInt8Type)])
            IN  [c |-> c2, v |-> Inst(c2)]
      [] expression.type = "ExpressionNumber" ->
            LET c1 == Emit(c, [op |-> "LLVMConstIntOfStringAndSize",
                               type |-> LLVMInt32Type, text |-> expression.value,
                               radix |-> 10])
            IN  [c |-> c1, v |-> Inst(c1)]
      [] expression.type = "InfixOperator" ->
            LET left == codegen_expression(c, expression.left)
                right == codegen_expression(left.c, expression.right)
            IN  IF right.c.status # "running" THEN [c |-> right.c, v |-> NULL]
                ELSE IF InfixBuilder(expression.op) = "none"
                THEN [c |-> sil_panic(right.c, "UnsupportedConstruct"), v |-> NULL]
                ELSE LET c2 == Emit(right.c, [op |-> InfixBuilder(expression.op),
                                              at |-> right.c.builder,
                                              left |-> left.v, right |-> right.v])
                     IN  [c |-> c2, v |-> Inst(c2)]
      [] OTHER -> [c |-> sil_panic(c, "UnsupportedConstruct"), v |-> NULL]

codegen_statement(c, statement) ==
    IF c.status # "running" THEN c
    ELSE CASE statement.type = "StatementReturn" ->
            LET r == codegen_expression(c, statement.expression)
            IN  IF r.c.status # "running" THEN r.c
                ELSE Emit(r.c, [op |-> "LLVMBuildRet", at |-> r.c.builder, value |-> r.v])
      [] statement.type = "StatementExpression" ->
            codegen_expression(c, statement.expression).c
      [] OTHER -> sil_panic(c, "UnsupportedConstruct")

RECURSIVE codegen_statements(_, _, _)
\* a loop over the statements that leaves the block at the first return
codegen_statements_until_return(c, statement_list, i) ==
    IF i > Len(statement_list) \/ c.status # "running" THEN c
    ELSE IF statement_list[i].type = "StatementReturn"
    THEN codegen_statement(c, statement_list[i])
    ELSE codegen_statements(codegen_statement(c, statement_list[i]), statement_list, i + 1)

codegen_statements(c, statement_list, i) ==
    IF i > Len(statement_list) \/ c.status # "running" THEN c
    ELSE codegen_statements(codegen_statement(c, statement_list[i]), statement_list, i + 1)

codegen_block(c, block) == codegen_statements(c, block, 1)

RECURSIVE ParamTypes(_, _)
\* the for loop of codegen_fn_proto, part_000:183-186: the parameter types,
\* or <<PANIC>> when to_llvm_type panics on one of them
ParamTypes(parameters, i) ==
    IF i > Len(parameters) THEN <<>>
    ELSE LET t == to_llvm_type(parameters[i].type)
             rest == ParamTypes(parameters, i + 1)
         IN  IF t = PANIC \/ rest = <<PANIC>> THEN <<PANIC>> ELSE <<t>> \o rest

\* codegen_fn_proto for the declaration at position node of function_list
codegen_fn_proto(c, node) ==
    LET fn_proto == c.function_list[node].prototype
        return_type == to_llvm_type(fn_proto.return_type)
        param_types == ParamTypes(fn_proto.parameters, 1)
    IN  IF return_type = PANIC \/ param_types = <<PANIC>>
        THEN sil_panic(c, "UnsupportedConstruct")
        ELSE LET function_type == LLVMFunctionType(return_type, param_types)
                 c1 == Emit(c, [op |-> "LLVMAddFunction", name |-> fn_proto.name,
                                type |-> function_type])
             IN  [c1 EXCEPT
                    !.module.functions =
                        Append(@, [name |-> fn_proto.name, fn_type |-> function_type,
                                   linkage |-> "LLVMExternalLinkage",
                                   call_conv |-> "LLVMCCallConv", blocks |-> <<>>]),
                    !.function_list[node].prototype.llvm_fn_type = function_type]

\* codegen_extern_fn without LLVMSetLinkage and LLVMSetFunctionCallConv
codegen_extern_fn_unmarked(c, node) == codegen_fn_proto(c, node)

codegen_extern_fn(c, node) ==
    LET c1 == codegen_fn_proto(c, node)
        function == Len(c1.module.functions)
    IN  IF c1.status # "running" THEN c1
        ELSE LET c2 == Emit(c1, [op |-> "LLVMSetLinkage", fn |-> function,
                                 linkage |-> "LLVMExternalLinkage"])
                 c3 == Emit(c2, [op |-> "LLVMSetFunctionCallConv", fn |-> function,
                                 call_conv |-> "LLVMCCallConv"])
             IN  [c3 EXCEPT !.module.functions[function].linkage = "LLVMExternalLinkage",
                            !.module.functions[function].call_conv = "LLVMCCallConv"]

codegen_fn(c, node) ==
    LET c1 == codegen_fn_proto(c, node)
        function == Len(c1.module.functions)
    IN  IF c1.status # "running" THEN c1
        ELSE LET c2 == Emit(c1, [op |-> "LLVMAppendBasicBlock", fn |-> function,
                                 label |-> "entry"])
                 c3 == [c2 EXCEPT !.module.functions[function].blocks = Append(@, "entry"),
                                  !.builder = function]
             IN  codegen_block(c3, c3.function_list[node].body)

\* analyze_extern_function without its map_has test
analyze_extern_function_unchecked(c, node) ==
    [c EXCEPT !.function_map =
        map_insert(@, c.function_list[node].prototype.name, node)]

analyze_extern_function(c, node) ==
    LET name == c.function_list[node].prototype.name
    IN  IF map_has(c.function_map, name) THEN sil_panic(c, "DuplicateSymbol")
        ELSE [c EXCEPT !.function_map = map_insert(@, name, node)]

analyze_function_definition(c, node) ==
    LET name == c.function_list[node].prototype.name
    IN  IF map_has(c.function_map, name) THEN sil_panic(c, "DuplicateSymbol")
        ELSE [c EXCEPT !.function_map = map_insert(@, name, node)]

\* the locals of the parse_* calls before the first declaration: type, name,
\* parameters and return_type of the declaration being parsed, the pattern
\* and the type name in progress, the block and the statement in progress
BlankFrame ==
    [type |-> "none", name |-> "", parameters |-> <<>>, return_type |-> NULL,
     pattern_name |-> "", stars |-> 0, type_for |-> "none",
     statement_list |-> <<>>, statement |-> "none",
     expression_start |-> 0, mode |-> "operand", depth |-> 0]

\* the parser's variables while no parse is run
ParseIdle ==
    /\ tokens = <<>>
    /\ token_index = 0
    /\ root = [function_list |-> <<>>]
    /\ frame = BlankFrame
    /\ panic = [message |-> "none"]
    /\ mark = [parse_root |-> -1, parse_fn_proto |-> -1, parse_block |-> -1]

(***************************************************************************)
(* codegen_generate, one action per step of its two loops.                 *)
(***************************************************************************)
\* the state after the step that leaves context c: where the loops stand next
Continue(c, next_pc, next_idx) ==
    /\ function_list' = c.function_list
    /\ function_map' = c.function_map
    /\ module' = c.module
    /\ builder' = c.builder
    /\ log' = c.log
    /\ entered' = c.entered
    /\ error' = c.error
    /\ IF c.status # "running"
       THEN status' = c.status /\ pc' = pc /\ idx' = idx
       ELSE /\ pc' = next_pc
            /\ idx' = next_idx
            /\ status' = IF next_pc = "exit" THEN "done" ELSE "running"
    /\ UNCHANGED <<type_vars, parse_vars>>

\* analyze_ast's loop is followed by codegen_root's, and that by the return
AfterAnalyze(c) ==
    IF idx + 1 < Len(c.function_list) THEN Continue(c, "analyze_ast", idx + 1)
    ELSE IF Len(c.function_map.entries) = 0 THEN Continue(c, "exit", 0)
    ELSE Continue(c, "codegen_root", 0)

AfterCodegen(c) ==
    IF idx + 1 < Len(c.function_map.entries) THEN Continue(c, "codegen_root", idx + 1)
    ELSE Continue(c, "exit", 0)

Init ==
    /\ function_list \in Programs
    /\ function_map = [entries |-> <<>>]
    /\ module = [functions |-> <<>>]
    /\ builder = 0
    /\ log = <<>>
    /\ entered = <<>>
    /\ status = "idle"
    /\ error = "none"
    /\ pc = "codegen_generate"
    /\ idx = 0
    /\ type_name = Primitive("void")
    /\ llvm_type = NULL
    /\ ParseIdle

\* part_000:235-241, up to the first iteration of analyze_ast
codegen_generate ==
    /\ pc = "codegen_generate"
    /\ LET c == [Ctx("crash") EXCEPT
                    !.status = "running",
                    !.log = <<[op |-> "LLVMCreateBuilder"],
                              [op |-> "LLVMModuleCreateWithName", name |-> "SilModule"]>>]
       IN  IF Len(function_list) = 0 THEN Continue(c, "exit", 0)
           ELSE Continue(c, "analyze_ast", 0)

analyze_ast_fn ==
    /\ pc = "analyze_ast" /\ status = "running"
    /\ function_list[idx + 1].type = "Fn"
    /\ AfterAnalyze(analyze_function_definition(Ctx("crash"), idx + 1))

analyze_ast_extern_fn ==
    /\ pc = "analyze_ast" /\ status = "running"
    /\ function_list[idx + 1].type = "ExternFn"
    /\ AfterAnalyze(analyze_extern_function(Ctx("crash"), idx + 1))

codegen_root_extern_fn ==
    /\ pc = "codegen_root" /\ status = "running"
    /\ LET node == function_map.entries[idx + 1].value
       IN  /\ function_list[node].type = "ExternFn"
           /\ AfterCodegen(codegen_extern_fn(Ctx("crash"), node))

\* the bodies the Fn at position node can have: the one the parser gave it,
\* any of Bodies when the program was drawn without one
BodiesOf(node) ==
    IF function_list[node].body = Unread THEN Bodies ELSE {function_list[node].body}

\* the body of the Fn is read here for the first time, so it is chosen here
codegen_root_fn ==
    /\ pc = "codegen_root" /\ status = "running"
    /\ LET node == function_map.entries[idx + 1].value
       IN  /\ function_list[node].type = "Fn"
           /\ \E body \in BodiesOf(node), ub \in {"crash", "emit"} :
                AfterCodegen(codegen_fn(
                    [Ctx(ub) EXCEPT !.function_list[node].body = body], node))

Next ==
    \/ codegen_generate
    \/ analyze_ast_fn
    \/ analyze_ast_extern_fn
    \/ codegen_root_extern_fn
    \/ codegen_root_fn

Spec == Init /\ [][Next]_vars

(***************************************************************************)
(* to_llvm_type on its own.                                                *)
(***************************************************************************)
TypeNames == {PointerTo(n, Primitive(p)) : n \in 0..MaxPtrDepth, p \in AstTypeNames}

TypeInit ==
    /\ type_name \in TypeNames
    /\ llvm_type = NULL
    /\ function_list = <<>>
    /\ function_map = [entries |-> <<>>]
    /\ module = [functions |-> <<>>]
    /\ builder = 0
    /\ log = <<>>
    /\ entered = <<>>
    /\ status = "idle"
    /\ error = "none"
    /\ pc = "to_llvm_type"
    /\ idx = 0
    /\ ParseIdle

lower_type ==
    /\ pc = "to_llvm_type"
    /\ llvm_type = NULL
    /\ llvm_type' = to_llvm_type(type_name)
    /\ UNCHANGED <<type_name, lower_vars, parse_vars>>

TypeNext == lower_type

TypeSpec == TypeInit /\ [][TypeNext]_vars

(***************************************************************************)
(* Properties of the lowering pass.                                        *)
(***************************************************************************)
CallInsts == {i \in 1..Len(log) : log[i].op = "LLVMBuildCall2"}
DeclaredNames == {function_list[i].prototype.name : i \in 1..Len(function_list)}
Collected == {function_map.entries[i].key : i \in 1..Len(function_map.entries)}
\* the declaration a call of name resolves to: the first of that name
DeclOf(name) ==
    function_list[CHOOSE i \in 1..Len(function_list) :
        /\ function_list[i].prototype.name = name
        /\ \A j \in 1..(i - 1) : function_list[j].prototype.name # name]
HasDuplicate ==
    \E i, j \in 1..Len(function_list) :
        i < j /\ function_list[i].prototype.name = function_list[j].prototype.name
\* the position of the first declaration that repeats an earlier name
FirstDuplicate ==
    CHOOSE j \in 1..Len(function_list) :
        /\ \E i \in 1..(j - 1) :
              function_list[i].prototype.name = function_list[j].prototype.name
        /\ \A k \in 1..(j - 1) : \A i \in 1..(k - 1) :
              function_list[i].prototype.name # function_list[k].prototype.name
TypesLower ==
    \A i \in 1..Len(function_list) :
        /\ to_llvm_type(function_list[i].prototype.return_type) # PANIC
        /\ \A p \in 1..Len(function_list[i].prototype.parameters) :
              to_llvm_type(function_list[i].prototype.parameters[p].type) # PANIC
\* every call site lowering has come to names a declared function and gives
\* it as many arguments as it has parameters
CallsLegal ==
    \A k \in 1..Len(entered) :
        /\ entered[k].name \in DeclaredNames
        /\ entered[k].count = Len(DeclOf(entered[k].name).prototype.parameters)

\* C1: every call instruction is emitted with the callee's function type
\* already cached on its FnProto and the callee already declared in the
\* module, so no call site is lowered before its callee's signature, in any
\* declaration order.
C1_CacheWrittenBeforeCall ==
    /\ status # "crash"
    /\ \A i \in CallInsts : log[i].fn_type # NULL /\ log[i].fn # NULL

\* C2: symbol collection covers the whole declaration list before anything
\* is declared or emitted, and a program whose calls all name declared
\* functions with the right number of arguments (forward calls included)
\* never fails with UnknownFunction and suffers no fatal error.
C2_ForwardReferenceLowers ==
    /\ (Len(module.functions) > 0 \/ Len(log) > 2) => Collected = DeclaredNames
    /\ (\A k \in 1..Len(entered) : entered[k].name \in DeclaredNames)
            => error # "UnknownFunction"
    /\ (~HasDuplicate /\ TypesLower /\ CallsLegal) => status \notin {"panic", "crash"}

\* the parts of C2 that hold of the code: collection precedes declaration,
\* and a call of a declared function never fails with UnknownFunction
C2_CollectionFirst ==
    /\ (Len(module.functions) > 0 \/ Len(log) > 2) => Collected = DeclaredNames
    /\ (\A k \in 1..Len(entered) : entered[k].name \in DeclaredNames)
            => error # "UnknownFunction"

\* C3: a Root with two declarations of one name fails with DuplicateSymbol,
\* whatever their order and kinds, at the second of them at the latest and
\* before any function is declared in the module.
C3_DuplicateSymbol ==
    HasDuplicate =>
        /\ Len(module.functions) = 0
        /\ pc \in {"codegen_generate", "analyze_ast"}
        /\ idx + 1 <= FirstDuplicate
        /\ status \in {"idle", "running", "panic"}
        /\ status = "panic" => error = "DuplicateSymbol" /\ idx + 1 = FirstDuplicate

C3_Witness ==
    /\ status = "panic" /\ error = "DuplicateSymbol"
    /\ Len(function_list) = 2
    /\ function_list[1].type = "Fn" /\ function_list[2].type = "ExternFn"

\* C4: a call instruction is emitted only for a call site whose callee is in
\* the symbol table with as many parameters as the site has arguments; a
\* site naming an undeclared function ends the run with UnknownFunction and
\* one with another argument count with ArityMismatch, nothing being emitted
\* for that site.
C4_CallChecks ==
    /\ \A i \in CallInsts :
          /\ map_has(function_map, log[i].name)
          /\ Len(log[i].args) = Len(DeclOf(log[i].name).prototype.parameters)
          /\ entered[log[i].site].name = log[i].name
    /\ \A k \in 1..Len(entered) :
          /\ ~map_has(function_map, entered[k].name) =>
                /\ status = "panic" /\ error = "UnknownFunction"
                /\ k = Len(entered) /\ Len(log) = entered[k].log_len
          /\ (/\ map_has(function_map, entered[k].name)
              /\ entered[k].count # Len(DeclOf(entered[k].name).prototype.parameters)) =>
                /\ status = "panic" /\ error = "ArityMismatch"
                /\ k = Len(entered) /\ Len(log) = entered[k].log_len

C4_Witness ==
    /\ status = "panic" /\ error = "ArityMismatch"
    /\ \E i \in CallInsts :
          /\ DeclOf(log[i].name).type = "ExternFn"
          /\ log[i].fn_type # NULL

\* the functions of the module declared under name, and the builder calls
\* of kind op made on function k
FunctionsNamed(name) ==
    {k \in 1..Len(module.functions) : module.functions[k].name = name}
CallsOn(op, k) == {j \in 1..Len(log) : log[j].op = op /\ log[j].fn = k}

\* C13: after a successful lowering every Fn of the Root has exactly one
\* function declaration with exactly one entry block, every ExternFn exactly
\* one declaration with no block, marked LLVMExternalLinkage and
\* LLVMCCallConv, and the module holds no other function.
C13_Declarations ==
    status = "done" =>
        /\ Len(module.functions) = Len(function_list)
        /\ \A i \in 1..Len(function_list) :
              LET name == function_list[i].prototype.name
                  adds == {j \in 1..Len(log) : log[j].op = "LLVMAddFunction"
                                               /\ log[j].name = name}
              IN  /\ Cardinality(FunctionsNamed(name)) = 1
                  /\ Cardinality(adds) = 1
                  /\ \A k \in FunctionsNamed(name) :
                        IF function_list[i].type = "Fn"
                        THEN /\ module.functions[k].blocks = <<"entry">>
                             /\ Cardinality(CallsOn("LLVMAppendBasicBlock", k)) = 1
                        ELSE /\ module.functions[k].blocks = <<>>
                             /\ CallsOn("LLVMAppendBasicBlock", k) = {}
                             /\ \E j \in CallsOn("LLVMSetLinkage", k) :
                                   log[j].linkage = "LLVMExternalLinkage"
                             /\ \E j \in CallsOn("LLVMSetFunctionCallConv", k) :
                                   log[j].call_conv = "LLVMCCallConv"
                             /\ module.functions[k].linkage = "LLVMExternalLinkage"
                             /\ module.functions[k].call_conv = "LLVMCCallConv"

C13_Witness ==
    /\ status = "done"
    /\ Len(function_list) = 2
    /\ function_list[1].type = "Fn"
    /\ function_list[2].type = "ExternFn"
    /\ Len(module.functions) = 2

\* the builder calls an expression and a statement ask for, after the
\* specification: operands before operator, arguments left to right, the
\* return after its expression. A call is <<what is built, its text or name>>.
RECURSIVE PostOrder(_)
RECURSIVE PostOrderAll(_, _)
PostOrderAll(es, i) ==
    IF i > Len(es) THEN <<>> ELSE PostOrder(es[i]) \o PostOrderAll(es, i + 1)
PostOrder(e) ==
    CASE e.type = "ExpressionNumber" -> <<<<"LLVMConstIntOfStringAndSize", e.value>>>>
      [] e.type = "ExpressionString" ->
            <<<<"LLVMBuildGlobalString", e.value>>, <<"LLVMBuildPointerCast", "">>>>
      [] e.type = "ExpressionFunction" ->
            PostOrderAll(e.parameters, 1) \o <<<<"LLVMBuildCall2", e.name>>>>
      [] e.type = "InfixOperator" ->
            PostOrder(e.left) \o PostOrder(e.right)
            \o <<<<CASE e.op = "Addition" -> "LLVMBuildAdd"
                     [] e.op = "Subtraction" -> "LLVMBuildSub"
                     [] e.op = "Multiplication" -> "LLVMBuildMul"
                     [] e.op = "Division" -> "LLVMBuildSDiv", "">>>>
      [] e.type = "StatementReturn" -> PostOrder(e.expression) \o <<<<"LLVMBuildRet", "">>>>
      [] e.type = "StatementExpression" -> PostOrder(e.expression)

\* the calls made for the body of function k of the module: those after its
\* entry block was appended, up to the next LLVMAddFunction
BlockStart(k) == CHOOSE j \in CallsOn("LLVMAppendBasicBlock", k) : TRUE
BlockEnd(k) ==
    LET later == {j \in (BlockStart(k) + 1)..Len(log) : log[j].op = "LLVMAddFunction"}
    IN  IF later = {} THEN Len(log)
        ELSE (CHOOSE j \in later : \A m \in later : j <= m) - 1
Built(entry) ==
    <<entry.op,
      CASE entry.op \in {"LLVMConstIntOfStringAndSize", "LLVMBuildGlobalString"} -> entry.text
        [] entry.op = "LLVMBuildCall2" -> entry.name
        [] OTHER -> "">>
Issued(k) == [n \in 1..(BlockEnd(k) - BlockStart(k)) |-> Built(log[BlockStart(k) + n])]
BodyOf(k) ==
    function_list[CHOOSE i \in 1..Len(function_list) :
        /\ function_list[i].type = "Fn"
        /\ function_list[i].prototype.name = module.functions[k].name].body
IsPrefix(s, t) == Len(s) <= Len(t) /\ \A n \in 1..Len(s) : s[n] = t[n]
\* the functions of the module that codegen_fn has given an entry block
WithBody == {k \in 1..Len(module.functions) : module.functions[k].blocks # <<>>}
ArithmeticBuilders == {"LLVMBuildAdd", "LLVMBuildSub", "LLVMBuildMul", "LLVMBuildSDiv"}

\* C14: expressions are lowered post-order in source order: the calls made
\* for a body are those of its statements in order, for each call expression
\* those of argument i before those of argument i+1 and LLVMBuildCall2 last,
\* for each infix expression left operand, right operand, then the
\* instruction of its operator, for "ret e" e and then LLVMBuildRet on e's
\* value; a lowering that stops early has made a prefix of them.
C14_PostOrder ==
    /\ \A k \in WithBody :
          /\ IsPrefix(Issued(k), PostOrderAll(BodyOf(k), 1))
          /\ (status \in {"running", "done"}) =>
                Issued(k) = PostOrderAll(BodyOf(k), 1)
    /\ \A j \in 1..Len(log) :
          /\ log[j].op \in ArithmeticBuilders =>
                /\ log[j].left.k = "inst" /\ log[j].right.k = "inst"
                /\ log[j].left.id < log[j].right.id
                /\ log[j].right.id = j - 1
          /\ log[j].op = "LLVMBuildRet" =>
                log[j].value.k = "inst" /\ log[j].value.id = j - 1
          /\ log[j].op = "LLVMBuildCall2" =>
                /\ \A a \in 1..Len(log[j].args) :
                      /\ log[j].args[a].k = "inst"
                      /\ a > 1 => log[j].args[a - 1].id < log[j].args[a].id
                /\ Len(log[j].args) > 0 => log[j].args[Len(log[j].args)].id = j - 1

\* a call with two arguments, an infix expression and a return have been lowered
C14_Witness ==
    /\ status = "done"
    /\ \E j \in 1..Len(log) :
          /\ log[j].op = "LLVMBuildCall2"
          /\ Len(log[j].args) = 2
          /\ log[log[j].args[1].id].op # log[log[j].args[2].id].op
    /\ \E j \in 1..Len(log) : log[j].op = "LLVMBuildRet"

\* the position of the first StatementReturn of a body, 0 when it has none
FirstReturn(body) ==
    IF \E i \in 1..Len(body) : body[i].type = "StatementReturn"
    THEN CHOOSE i \in 1..Len(body) :
            /\ body[i].type = "StatementReturn"
            /\ \A j \in 1..(i - 1) : body[j].type # "StatementReturn"
    ELSE 0
\* a call is the one expression whose lowering can end in an error
RECURSIVE HasCall(_)
HasCall(e) ==
    CASE e.type = "ExpressionFunction" -> TRUE
      [] e.type = "InfixOperator" -> HasCall(e.left) \/ HasCall(e.right)
      [] e.type \in {"StatementReturn", "StatementExpression"} -> HasCall(e.expression)
      [] OTHER -> FALSE

\* C15: codegen_block does not stop at a return: once the first "ret" of a
\* body with statements after it is lowered, the statements after it are
\* lowered too, in source order, their instructions after LLVMBuildRet in
\* the one entry block, and no error is raised unless a call among them
\* raises one.
C15_LoweringPastReturn ==
    \A k \in WithBody :
        LET body == BodyOf(k)
            r == FirstReturn(body)
            upto == PostOrderAll(SubSeq(body, 1, r), 1)
            after == SubSeq(body, r + 1, Len(body))
        IN  (r > 0 /\ r < Len(body) /\ Len(Issued(k)) >= Len(upto)) =>
                /\ Issued(k)[Len(upto)] = <<"LLVMBuildRet", "">>
                /\ IsPrefix(Issued(k), upto \o PostOrderAll(after, 1))
                /\ (status \in {"running", "done"}
                    \/ \A i \in 1..Len(after) : ~HasCall(after[i])) =>
                      /\ Issued(k) = upto \o PostOrderAll(after, 1)
                      /\ Len(Issued(k)) > Len(upto)
                /\ module.functions[k].blocks = <<"entry">>
                /\ \A j \in (BlockStart(k) + 1)..BlockEnd(k) :
                      log[j].op # "LLVMConstIntOfStringAndSize" => log[j].at = k

C15_Witness ==
    /\ status = "done"
    /\ \E k \in WithBody :
          /\ Len(BodyOf(k)) = 3
          /\ FirstReturn(BodyOf(k)) = 1
          /\ Len(Issued(k)) = 6
          /\ Issued(k)[2] = <<"LLVMBuildRet", "">>
          /\ Issued(k)[3] = <<"LLVMBuildGlobalString", "s">>
          /\ Issued(k)[6] = <<"LLVMBuildRet", "">>

\* C10: type lowering yields an IR type with as many pointer levels as the
\* TypeName has Pointer wrappers, around the lowering of its primitive.
RECURSIVE Wrappers(_)
Wrappers(t) == IF t.type = "Pointer" THEN 1 + Wrappers(t.child_type) ELSE 0
RECURSIVE Innermost(_)
Innermost(t) == IF t.type = "Pointer" THEN Innermost(t.child_type) ELSE t
RECURSIVE PointerLevels(_)
PointerLevels(t) == IF t.k = "ptr" THEN 1 + PointerLevels(t.to) ELSE 0
RECURSIVE Pointee(_)
Pointee(t) == IF t.k = "ptr" THEN Pointee(t.to) ELSE t

C10_PointerDepthPreserved ==
    llvm_type # NULL =>
        /\ llvm_type # PANIC
        /\ PointerLevels(llvm_type) = Wrappers(type_name)
        /\ Pointee(llvm_type) \in {LLVMVoidType, LLVMInt8Type, LLVMInt32Type}
        /\ Pointee(llvm_type) = to_llvm_type(Innermost(type_name))

\* what holds of the code: the depth is kept whenever a type is returned
C10_DepthKeptWhenLowered ==
    (llvm_type # NULL /\ llvm_type # PANIC) =>
        /\ PointerLevels(llvm_type) = Wrappers(type_name)
        /\ Pointee(llvm_type) = to_llvm_type(Innermost(type_name))

(***************************************************************************)
(* The parser, src/src/parser/parser.c.                                    *)
(*                                                                         *)
(* A token is [type, text, position]. The parser reads token_list left to  *)
(* right through current_token and never looks behind token_index, so the  *)
(* lexer's finished list is modelled as chosen token by token, each when   *)
(* the parser first reads it: tokens holds the part of the list read so    *)
(* far, and the list ends with the Eof sentinel after at most MaxTokens    *)
(* tokens.                                                                 *)
(***************************************************************************)
\* a symbol is a name parse_type_name knows ("i8") or one it does not ("f")
SymbolTexts == {"f", "i8"}
PlainTokenTypes ==
    {"KeywordFn", "KeywordExtern", "KeywordReturn", "KeywordIf", "LParen", "RParen",
     "LBrace", "RBrace", "Colon", "Comma", "Arrow", "Star", "Semicolon",
     "Plus", "Eof"}
TokenShapes ==
    {[type |-> t, text |-> ""] : t \in PlainTokenTypes}
    \cup {[type |-> "Symbol", text |-> x] : x \in SymbolTexts}
    \cup {[type |-> "Number", text |-> "1"], [type |-> "String", text |-> "s"]}

\* a parse_type_name that takes every symbol for a primitive
PrimitiveSymbols_any == {"i8", "u8", "i32", "unreachable"} \cup SymbolTexts

\* token_symbol_compare against the names parse_type_name knows
PrimitiveSymbols == {"i8", "u8", "i32", "unreachable"}

\* the token kinds the parameter loop skips after a pattern: one that takes
\* whatever follows the pattern
IsSeparator_any(type) == TRUE
\* ... and one that takes nothing
IsSeparator_none(type) == FALSE

\* parser.c:172
IsSeparator(type) == type = "Comma"

\* a prototype without "->" that is left with the type of an i32
DefaultReturnType_i32 == Primitive("i32")

\* parser.c:185-187
DefaultReturnType == Primitive("void")

\* the tokens current_token can return: the one at token_index if it has been
\* read before, any token otherwise (Eof alone at the end of the longest list);
\* nothing lies behind the sentinel
CurrentTokens ==
    IF token_index < Len(tokens) THEN {tokens[token_index + 1]}
    ELSE IF Len(tokens) > 0 /\ tokens[Len(tokens)].type = "Eof" THEN {}
    ELSE {[type |-> t.type, text |-> t.text,
           position |-> [line |-> 1, column |-> Len(tokens) + 1]] :
            t \in {x \in TokenShapes : Len(tokens) + 1 = MaxTokens => x.type = "Eof"}}

\* parser.c:16-18: the step at pc reads token as the current token
current_token(at, token) ==
    /\ pc = at /\ status = "running"
    /\ token \in CurrentTokens
    /\ tokens' = IF token_index < Len(tokens) THEN tokens ELSE Append(tokens, token)

\* the sil_panic of expect_token, parser.c:23-29
ExpectError(type, token) ==
    [message |-> "Expected %s. Got %s (%d:%d)", expected |-> type,
     actual |-> token.type, line |-> token.position.line,
     column |-> token.position.column]

Fail(message) ==
    /\ status' = "panic"
    /\ panic' = message
    /\ UNCHANGED <<pc, root, frame>>

Go(next_pc, next_frame, next_root) ==
    /\ pc' = next_pc
    /\ frame' = next_frame
    /\ root' = next_root
    /\ UNCHANGED <<status, panic>>

consume_token == token_index' = token_index + 1

\* expect_token(type) on the current token, then the rest of the step
expect_token(token, type, next_pc, next_frame, next_root) ==
    IF token.type # type
    THEN Fail(ExpectError(type, token)) /\ UNCHANGED token_index
    ELSE consume_token /\ Go(next_pc, next_frame, next_root)

ParseInit ==
    /\ ParseIdle
    /\ status = "running"
    /\ pc = "parse_root"
    /\ function_list = <<>>
    /\ function_map = [entries |-> <<>>]
    /\ module = [functions |-> <<>>]
    /\ builder = 0
    /\ log = <<>>
    /\ entered = <<>>
    /\ error = "none"
    /\ idx = 0
    /\ type_name = Primitive("void")
    /\ llvm_type = NULL

Idle == UNCHANGED <<lower_vars_but_control, type_vars>>

\* parse_expression (parser/expression.c), after the grammar of the
\* specification: a call is a name and a parenthesised, comma-separated,
\* possibly empty list of expressions; there are string and integer literals,
\* and left-associative + - * / with * and / binding tighter.
\* parse_expression_token is its cursor, one token at a time; ExpressionOf
\* builds the node from the tokens it took.
InfixTokens == {"Plus", "Minus", "Star", "Slash"}

parse_expression_token(mode, depth, type) ==
    LET more(m, d) == [outcome |-> "more", mode |-> m, depth |-> d, expected |-> "none"]
        fail(e) == [outcome |-> "fail", mode |-> mode, depth |-> depth, expected |-> e]
        operand(d) ==
            IF type \in {"Number", "String"} THEN more("operator", d)
            ELSE IF type = "Symbol" THEN more("callee", d)
            ELSE fail("Expression")
    IN  CASE mode = "operand" -> operand(depth)
          [] mode = "callee" ->
                IF type = "LParen" THEN more("arguments", depth) ELSE fail("LParen")
          [] mode = "arguments" ->
                IF type = "RParen" THEN more("operator", depth) ELSE operand(depth + 1)
          [] OTHER ->
                IF type \in InfixTokens THEN more("operand", depth)
                ELSE IF depth = 0
                THEN [outcome |-> "done", mode |-> mode, depth |-> depth,
                      expected |-> "none"]
                ELSE IF type = "Comma" THEN more("operand", depth)
                ELSE IF type = "RParen" THEN more("operator", depth - 1)
                ELSE fail("RParen")

Precedence(type) ==
    IF type \in {"Star", "Slash"} THEN 2 ELSE IF type \in {"Plus", "Minus"} THEN 1 ELSE 0

OperatorOf(type) ==
    CASE type = "Plus" -> "Addition"
      [] type = "Minus" -> "Subtraction"
      [] type = "Star" -> "Multiplication"
      [] OTHER -> "Division"

RECURSIVE ExpressionAt(_, _, _)
RECURSIVE ClimbAt(_, _, _, _)
RECURSIVE PrimaryAt(_, _)
RECURSIVE ArgumentsAt(_, _, _)

PrimaryAt(ts, i) ==
    CASE ts[i].type = "Number" -> [node |-> ExpressionNumber(ts[i].text), next |-> i + 1]
      [] ts[i].type = "String" -> [node |-> ExpressionString(ts[i].text), next |-> i + 1]
      [] OTHER ->
            IF ts[i + 2].type = "RParen"
            THEN [node |-> ExpressionFunction(ts[i].text, <<>>), next |-> i + 3]
            ELSE LET args == ArgumentsAt(ts, i + 2, <<>>)
                 IN  [node |-> ExpressionFunction(ts[i].text, args.node),
                      next |-> args.next]

ArgumentsAt(ts, i, acc) ==
    LET e == ExpressionAt(ts, i, 1)
    IN  IF ts[e.next].type = "Comma"
        THEN ArgumentsAt(ts, e.next + 1, Append(acc, e.node))
        ELSE [node |-> Append(acc, e.node), next |-> e.next + 1]

ClimbAt(ts, lhs, i, min) ==
    IF i <= Len(ts) /\ Precedence(ts[i].type) >= min
    THEN LET rhs == ExpressionAt(ts, i + 1, Precedence(ts[i].type) + 1)
         IN  ClimbAt(ts, InfixOperator(OperatorOf(ts[i].type), lhs, rhs.node),
                     rhs.next, min)
    ELSE [node |-> lhs, next |-> i]

ExpressionAt(ts, i, min) ==
    LET p == PrimaryAt(ts, i) IN ClimbAt(ts, p.node, p.next, min)

ExpressionOf(ts) == ExpressionAt(ts, 1, 1).node

(***************************************************************************)
(* The parse_* functions, one action per stretch of code that works on one *)
(* current token.                                                          *)
(***************************************************************************)
\* the declaration node the frame holds
FnNode ==
    [type |-> "Fn",
     prototype |-> FnProto(frame.name, frame.parameters, frame.return_type),
     body |-> frame.statement_list]
ExternFnNode ==
    [type |-> "ExternFn",
     prototype |-> FnProto(frame.name, frame.parameters, frame.return_type)]

\* where parse_fn_proto returns to: parse_fn goes on with parse_block,
\* parse_extern_fn with its semicolon
AfterProto == IF frame.type = "Fn" THEN "parse_block" ELSE "parse_extern_fn"

\* parser.c:216-236; for "fn" the call goes down parse_fn to parse_fn_proto,
\* for "extern" parse_extern_fn takes the keyword first
parse_root ==
    \E token \in CurrentTokens :
    /\ current_token("parse_root", token)
    /\ mark' = [mark EXCEPT !.parse_root = token_index]
    /\ CASE token.type = "KeywordFn" ->
              /\ Go("parse_fn_proto", [BlankFrame EXCEPT !.type = "Fn"], root)
              /\ UNCHANGED token_index
         [] token.type = "KeywordExtern" ->
              expect_token(token, "KeywordExtern", "parse_fn_proto",
                           [BlankFrame EXCEPT !.type = "ExternFn"], root)
         [] token.type = "Eof" ->
              /\ status' = "ok"
              /\ UNCHANGED <<pc, frame, root, panic, token_index>>
         [] OTHER ->
              /\ Fail([message |-> "Expected function declaration"])
              /\ UNCHANGED token_index
    /\ Idle

\* parser.c:156
parse_fn_proto_keyword ==
    \E token \in CurrentTokens :
    /\ current_token("parse_fn_proto", token)
    /\ expect_token(token, "KeywordFn", "parse_fn_proto_name", frame, root)
    /\ UNCHANGED mark /\ Idle

\* parser.c:158-162
parse_fn_proto_name ==
    \E token \in CurrentTokens :
    /\ current_token("parse_fn_proto_name", token)
    /\ expect_token(token, "Symbol", "parse_fn_proto_lparen",
                    [frame EXCEPT !.name = token.text], root)
    /\ UNCHANGED mark /\ Idle

\* parser.c:164
parse_fn_proto_lparen ==
    \E token \in CurrentTokens :
    /\ current_token("parse_fn_proto_lparen", token)
    /\ expect_token(token, "LParen", "parse_fn_proto_parameters", frame, root)
    /\ UNCHANGED mark /\ Idle

\* parser.c:168-169 and 177: the head of the parameter loop; inside it the
\* first expect_token of parse_pattern (parser.c:79-84), past it the ")"
parse_fn_proto_parameters ==
    \E token \in CurrentTokens :
    /\ current_token("parse_fn_proto_parameters", token)
    /\ mark' = [mark EXCEPT !.parse_fn_proto = token_index]
    /\ IF token.type # "RParen"
       THEN expect_token(token, "Symbol", "parse_pattern",
                         [frame EXCEPT !.pattern_name = token.text], root)
       ELSE expect_token(token, "RParen", "parse_fn_proto_return", frame, root)
    /\ Idle

\* parser.c:86-88
parse_pattern ==
    \E token \in CurrentTokens :
    /\ current_token("parse_pattern", token)
    /\ expect_token(token, "Colon", "parse_type_name",
                    [frame EXCEPT !.type_for = "pattern", !.stars = 0], root)
    /\ UNCHANGED mark /\ Idle

\* parser.c:44-74: one level of the recursion per "*", then the primitive;
\* the finished type goes to the pattern (parser.c:88-90, 170) or to the
\* prototype (parser.c:183, 189)
parse_type_name ==
    \E token \in CurrentTokens :
    /\ current_token("parse_type_name", token)
    /\ IF token.type = "Star"
       THEN consume_token /\ Go("parse_type_name", [frame EXCEPT !.stars = @ + 1], root)
       ELSE IF token.type # "Symbol"
       THEN Fail(ExpectError("Symbol", token)) /\ UNCHANGED token_index
       ELSE /\ consume_token
            /\ IF token.text \notin PrimitiveSymbols
               THEN Fail([message |-> "Unknown primitive type"])
               ELSE LET t == PointerTo(frame.stars, Primitive(token.text))
                    IN  IF frame.type_for = "pattern"
                        THEN Go("parse_fn_proto_separator",
                                [frame EXCEPT !.parameters =
                                    Append(@, Pattern(frame.pattern_name, t))],
                                root)
                        ELSE Go(AfterProto, [frame EXCEPT !.return_type = t], root)
    /\ UNCHANGED mark /\ Idle

\* parser.c:172-174
parse_fn_proto_separator ==
    \E token \in CurrentTokens :
    /\ current_token("parse_fn_proto_separator", token)
    /\ IF IsSeparator(token.type) THEN consume_token ELSE UNCHANGED token_index
    /\ Go("parse_fn_proto_parameters", frame, root)
    /\ UNCHANGED mark /\ Idle

\* parser.c:180-191
parse_fn_proto_return ==
    \E token \in CurrentTokens :
    /\ current_token("parse_fn_proto_return", token)
    /\ IF token.type = "Arrow"
       THEN /\ consume_token
            /\ Go("parse_type_name",
                  [frame EXCEPT !.type_for = "return_type", !.stars = 0], root)
       ELSE /\ UNCHANGED token_index
            /\ Go(AfterProto, [frame EXCEPT !.return_type = DefaultReturnType], root)
    /\ UNCHANGED mark /\ Idle

\* parser.c:211-213 and the list_push of parser.c:227
parse_extern_fn ==
    \E token \in CurrentTokens :
    /\ current_token("parse_extern_fn", token)
    /\ expect_token(token, "Semicolon", "parse_root", frame,
                    [root EXCEPT !.function_list = Append(@, ExternFnNode)])
    /\ UNCHANGED mark /\ Idle

\* parser.c:131-133
parse_block ==
    \E token \in CurrentTokens :
    /\ current_token("parse_block", token)
    /\ expect_token(token, "LBrace", "parse_block_statements", frame, root)
    /\ UNCHANGED mark /\ Idle

\* parser.c:135-149: the head of the statement loop. "}" ends the block and
\* the Fn (parser.c:199-201, 222); anything else starts a statement, whose
\* kind parse_statement takes from the same token (parser.c:95-119)
parse_block_statements ==
    \E token \in CurrentTokens :
    /\ current_token("parse_block_statements", token)
    /\ mark' = [mark EXCEPT !.parse_block = token_index]
    /\ LET expression(kind, start) ==
              [frame EXCEPT !.statement = kind, !.expression_start = start,
                            !.mode = "operand", !.depth = 0]
       IN  CASE token.type = "RBrace" ->
                  /\ consume_token
                  /\ Go("parse_root", frame,
                        [root EXCEPT !.function_list = Append(@, FnNode)])
             [] token.type = "KeywordReturn" ->
                  /\ consume_token
                  /\ Go("parse_statement",
                        expression("StatementReturn", token_index + 1), root)
             [] token.type = "KeywordIf" ->
                  /\ UNCHANGED token_index
                  /\ Go("parse_statement", expression("none", token_index), root)
             [] OTHER ->
                  /\ UNCHANGED token_index
                  /\ Go("parse_statement",
                        expression("StatementExpression", token_index), root)
    /\ Idle

\* parser.c:103-109, 113, 119-125: parse_expression, token by token, and
\* once it has returned the ";" of the statement and the list_push of
\* parse_block (parser.c:142-146). For "if" the expression node itself is
\* returned as the statement.
parse_statement ==
    \E token \in CurrentTokens :
    /\ current_token("parse_statement", token)
    /\ LET r == parse_expression_token(frame.mode, frame.depth, token.type)
           node == ExpressionOf(SubSeq(tokens, frame.expression_start + 1, token_index))
           push(statement) ==
              [frame EXCEPT !.statement_list = Append(@, statement)]
       IN  CASE r.outcome = "fail" ->
                  Fail(ExpectError(r.expected, token)) /\ UNCHANGED token_index
             [] r.outcome = "more" ->
                  /\ consume_token
                  /\ Go("parse_statement",
                        [frame EXCEPT !.mode = r.mode, !.depth = r.depth], root)
             [] OTHER ->
                  IF frame.statement = "none"
                  THEN /\ UNCHANGED token_index
                       /\ Go("parse_block_statements", push(node), root)
                  ELSE expect_token(token, "Semicolon", "parse_block_statements",
                                    push([type |-> frame.statement, expression |-> node]),
                                    root)
    /\ UNCHANGED mark /\ Idle

ParseNext ==
    \/ parse_root
    \/ parse_fn_proto_keyword
    \/ parse_fn_proto_name
    \/ parse_fn_proto_lparen
    \/ parse_fn_proto_parameters
    \/ parse_pattern
    \/ parse_type_name
    \/ parse_fn_proto_separator
    \/ parse_fn_proto_return
    \/ parse_extern_fn
    \/ parse_block
    \/ parse_block_statements
    \/ parse_statement

ParseSpec == ParseInit /\ [][ParseNext]_vars

(***************************************************************************)
(* The pipeline: parse, then codegen_generate on the Root it returned. The *)
(* driver is not part of the sources; after the specification, lowering    *)
(* runs on the AST of a parse that ended without a fatal error, and a      *)
(* fatal error ends the whole run.                                         *)
(***************************************************************************)
lower_root ==
    /\ pc = "parse_root" /\ status = "ok"
    /\ function_list' = root.function_list
    /\ pc' = "codegen_generate"
    /\ status' = "idle"
    /\ UNCHANGED <<function_map, module, builder, log, entered, error, idx,
                   type_vars, parse_vars>>

CompileNext ==
    \/ ParseNext
    \/ lower_root
    \/ Next

CompileSpec == ParseInit /\ [][CompileNext]_vars

(***************************************************************************)
(* Properties of the pipeline.                                             *)
(***************************************************************************)
\* the TypeName trees of the prototype of a declaration
TypesOf(decl) ==
    {decl.prototype.return_type}
    \cup {decl.prototype.parameters[i].type : i \in 1..Len(decl.prototype.parameters)}
\* the statement nodes the parser has placed in a statement list so far
PlacedStatements ==
    {frame.statement_list[i] : i \in 1..Len(frame.statement_list)}
    \cup UNION {{root.function_list[k].body[i] : i \in 1..Len(root.function_list[k].body)} :
                 k \in {j \in 1..Len(root.function_list) : root.function_list[j].type = "Fn"}}

\* C11: no AST the parser returns makes lowering fail with
\* UnsupportedConstruct: every primitive type name the parser accepts has an
\* IR type, and every node of a statement list is one codegen_statement takes.
C11_ParsedAstLowers == error # "UnsupportedConstruct"

\* what holds of the code: the statement lists hold StatementReturn and
\* StatementExpression nodes only, and lowering stops with
\* UnsupportedConstruct for an i8 in the prototype being lowered alone
C11_StatementsAreStatements ==
    \A st \in PlacedStatements : st.type \in {"StatementReturn", "StatementExpression"}
C11_OnlyI8Fails ==
    error = "UnsupportedConstruct" =>
        /\ pc = "codegen_root"
        /\ \E t \in TypesOf(function_list[function_map.entries[idx + 1].value]) :
              Innermost(t).primitive = "i8"


\* position i of ts holds the symbol of a type annotation: what leads up to
\* it is ":" or "->" and any number of "*"
TypeSymbolAt(ts, i) ==
    /\ ts[i].type = "Symbol"
    /\ \E j \in 1..(i - 1) :
          /\ ts[j].type \in {"Colon", "Arrow"}
          /\ \A k \in (j + 1)..(i - 1) : ts[k].type = "Star"
FixedPrimitiveNames == {"i8", "u8", "i32", "unreachable"}

\* C12: a type annotation whose symbol, after any number of "*", is not a
\* fixed primitive name ends the parse with UnknownTypeName ("Unknown
\* primitive type") at that symbol: no Root is returned and lowering makes no
\* builder call (no module, no function declaration, no instruction).
C12_UnknownTypeName ==
    \A i \in 1..Len(tokens) :
        (TypeSymbolAt(tokens, i) /\ tokens[i].text \notin FixedPrimitiveNames) =>
            /\ i = Len(tokens)
            /\ status = "panic"
            /\ panic.message = "Unknown primitive type"
            /\ pc = "parse_type_name"
            /\ function_list = <<>>
            /\ log = <<>>
            /\ module.functions = <<>>

C12_Witness ==
    /\ status = "panic"
    /\ panic.message = "Unknown primitive type"
    /\ Len(tokens) >= 3
    /\ tokens[Len(tokens)].text \notin FixedPrimitiveNames
    /\ tokens[Len(tokens) - 1].type = "Star"
    /\ tokens[Len(tokens) - 2].type = "Colon"
    /\ log = <<>>

(***************************************************************************)
(* The grammar of the specification, as the automaton that reads a token   *)
(* list from the left: a state is [at, kind, depth], with kind the         *)
(* declaration in progress and depth the argument lists that are open.     *)
(*   root := (fnDecl | externDecl)* EOF                                    *)
(*   fnDecl := "fn" SYMBOL "(" (pattern ("," pattern)* )? ")"              *)
(*             ("->" typeName)? block                                      *)
(*   externDecl := "extern" fnProto ";"                                    *)
(*   pattern := SYMBOL ":" typeName                                        *)
(*   typeName := "*" typeName | primitiveSymbol                            *)
(*   block := "{" statement* "}"                                           *)
(*   statement := "ret" expression ";" | expression ";"                    *)
(***************************************************************************)
GrammarStart == [at |-> "root", kind |-> "none", depth |-> 0]
GrammarReject == [at |-> "reject", kind |-> "none", depth |-> 0]

GrammarStep(g, token) ==
    LET to(at) == [g EXCEPT !.at = at]
        type == token.type
        primitive == type = "Symbol" /\ token.text \in PrimitiveSymbols
        after_proto ==
            IF g.kind = "Fn" /\ type = "LBrace" THEN to("statements")
            ELSE IF g.kind = "ExternFn" /\ type = "Semicolon" THEN to("root")
            ELSE GrammarReject
        expression(mode) ==
            LET r == parse_expression_token(mode, g.depth, type)
            IN  IF r.outcome = "more" THEN [g EXCEPT !.at = r.mode, !.depth = r.depth]
                ELSE IF r.outcome = "done" /\ type = "Semicolon" THEN to("statements")
                ELSE GrammarReject
    IN  CASE g.at = "root" ->
                IF type = "KeywordFn" THEN [to("name") EXCEPT !.kind = "Fn"]
                ELSE IF type = "KeywordExtern" THEN [to("extern") EXCEPT !.kind = "ExternFn"]
                ELSE IF type = "Eof" THEN to("end")
                ELSE GrammarReject
          [] g.at = "extern" -> IF type = "KeywordFn" THEN to("name") ELSE GrammarReject
          [] g.at = "name" -> IF type = "Symbol" THEN to("lparen") ELSE GrammarReject
          [] g.at = "lparen" -> IF type = "LParen" THEN to("first") ELSE GrammarReject
          [] g.at = "first" ->
                IF type = "RParen" THEN to("arrow")
                ELSE IF type = "Symbol" THEN to("colon")
                ELSE GrammarReject
          [] g.at = "pattern" -> IF type = "Symbol" THEN to("colon") ELSE GrammarReject
          [] g.at = "colon" -> IF type = "Colon" THEN to("type") ELSE GrammarReject
          [] g.at = "type" ->
                IF type = "Star" THEN g
                ELSE IF primitive THEN to("more")
                ELSE GrammarReject
          [] g.at = "more" ->
                IF type = "Comma" THEN to("pattern")
                ELSE IF type = "RParen" THEN to("arrow")
                ELSE GrammarReject
          [] g.at = "arrow" -> IF type = "Arrow" THEN to("return") ELSE after_proto
          [] g.at = "return" ->
                IF type = "Star" THEN g
                ELSE IF primitive THEN to("declared")
                ELSE GrammarReject
          [] g.at = "declared" -> after_proto
          [] g.at = "statements" ->
                IF type = "RBrace" THEN [to("root") EXCEPT !.depth = 0]
                ELSE IF type = "KeywordReturn" THEN [to("operand") EXCEPT !.depth = 0]
                ELSE expression("operand")
          [] g.at \in {"operand", "callee", "arguments", "operator"} -> expression(g.at)
          [] OTHER -> GrammarReject

RECURSIVE GrammarRun(_, _, _)
GrammarRun(ts, i, g) ==
    IF i > Len(ts) \/ g.at = "reject" THEN g
    ELSE GrammarRun(ts, i + 1, GrammarStep(g, ts[i]))

\* ts begins a token list of the grammar / is one
Viable(ts) == GrammarRun(ts, 1, GrammarStart).at # "reject"
Conforms(ts) == GrammarRun(ts, 1, GrammarStart).at = "end"

(***************************************************************************)
(* Properties of the parser.                                               *)
(***************************************************************************)
\* in a token list the parser takes, a colon belongs to a pattern and a
\* comma before ")" to a parameter list (parse_expression takes neither):
\* every pattern begins right after "(" or ",", and no "," is followed by ")"
ParameterListsSeparated(ts) ==
    \A i \in 1..Len(ts) :
        /\ ts[i].type = "Colon" => i >= 3 /\ ts[i - 2].type \in {"LParen", "Comma"}
        /\ (ts[i].type = "Comma" /\ i < Len(ts)) => ts[i + 1].type # "RParen"

\* C5: the parser returns an AST only for parameter lists of the form
\* (pattern ("," pattern)* )?; a list with two parameters not separated by
\* a comma, or with a comma right before ")", is rejected.
C5_ParameterListGrammar == status = "ok" => ParameterListsSeparated(tokens)

\* C6: every fatal error of the parser carries the expected token kind, the
\* actual token kind and the line and column of the offending token.
C6_ErrorsCarryContext ==
    status = "panic" => {"expected", "actual", "line", "column"} \subseteq DOMAIN panic

\* what holds of the code: the errors of expect_token carry all of it
C6_ExpectErrorsCarryContext ==
    (status = "panic" /\ panic.message = "Expected %s. Got %s (%d:%d)") =>
        /\ {"expected", "actual", "line", "column"} \subseteq DOMAIN panic
        /\ panic.actual = tokens[token_index + 1].type
        /\ panic.column = token_index + 1

\* the positions of the "fn" keywords: one per declaration, in source order
FnKeywords(ts) == {i \in 1..Len(ts) : ts[i].type = "KeywordFn"}
RECURSIVE Ordered(_)
Ordered(S) ==
    IF S = {} THEN <<>>
    ELSE LET m == CHOOSE x \in S : \A y \in S : x <= y IN <<m>> \o Ordered(S \ {m})
\* the first ")" after position i: the end of the parameter list that starts there
ClosingParen(ts, i) == CHOOSE j \in i..Len(ts) : ts[j].type = "RParen" /\
                            \A k \in i..(j - 1) : ts[k].type # "RParen"
RECURSIVE TypeNameAt(_, _)
TypeNameAt(ts, i) ==
    IF ts[i].type = "Star" THEN Pointer(TypeNameAt(ts, i + 1)) ELSE Primitive(ts[i].text)
\* the return type the tokens of the declaration at "fn" keyword i spell out
WrittenReturnType(ts, i) ==
    LET r == ClosingParen(ts, i)
    IN  IF ts[r + 1].type = "Arrow" THEN TypeNameAt(ts, r + 2) ELSE Primitive("void")

\* C7: the return type of a parsed prototype is Primitive(void) when no
\* "->" follows its parameter list and the type written after "->" when one
\* does, for fn and extern declarations alike.
C7_ReturnTypeDefault ==
    LET fns == Ordered(FnKeywords(tokens))
    IN  \A k \in 1..Len(root.function_list) :
            root.function_list[k].prototype.return_type = WrittenReturnType(tokens, fns[k])

C7_Witness ==
    /\ status = "ok"
    /\ Len(root.function_list) = 2
    /\ root.function_list[1].type = "ExternFn"
    /\ root.function_list[2].type = "Fn"
    /\ \A i \in 1..Len(tokens) : tokens[i].type # "Arrow"

\* C8: the token cursor never passes the sentinel: Eof is the last token
\* read, and token_index never exceeds its index.
C8_NeverPastSentinel ==
    \A i \in 1..Len(tokens) :
        tokens[i].type = "Eof" => i = Len(tokens) /\ token_index <= i - 1

C8_Witness ==
    /\ status = "panic"
    /\ pc = "parse_statement"
    /\ tokens[Len(tokens)].type = "Eof"
    /\ token_index = Len(tokens) - 1
    /\ frame.depth > 0

\* C9: a token list of the grammar is never rejected, the Root returned
\* holds the declarations in source order, and every iteration of the loops
\* of parse_root, parse_block and parse_fn_proto starts further along the
\* token list than the one before it, so the parse ends.
C9_Total ==
    /\ status = "panic" => ~Viable(tokens)
    /\ status = "ok" =>
          LET fns == Ordered(FnKeywords(tokens))
          IN  /\ Len(root.function_list) = Len(fns)
              /\ \A k \in 1..Len(fns) :
                    /\ root.function_list[k].prototype.name = tokens[fns[k] + 1].text
                    /\ root.function_list[k].type =
                          IF fns[k] > 1 /\ tokens[fns[k] - 1].type = "KeywordExtern"
                          THEN "ExternFn" ELSE "Fn"
    /\ status = "running" =>
          /\ CurrentTokens # {}
          /\ pc = "parse_root" => token_index > mark.parse_root
          /\ pc = "parse_block_statements" => token_index > mark.parse_block
          /\ pc = "parse_fn_proto_parameters" => token_index > mark.parse_fn_proto

C9_Witness ==
    /\ status = "ok"
    /\ Conforms(tokens)
    /\ Len(root.function_list) = 2
    /\ root.function_list[1].prototype.name # root.function_list[2].prototype.name
    /\ root.function_list[1].type # root.function_list[2].type

====
